---------------------------- MODULE Spec2Model ----------------------------
(***************************************************************************)
(* Model of scripts/sync_from_sheet.py: one run fetches a CSV, validates   *)
(* every row, selects the draw with the largest round and writes it to     *)
(* lotto.json.                                                             *)
(*                                                                         *)
(* A Python str is a sequence of one-character strings.  A character       *)
(* outside ASCII is written as the name of its code point ("U+D68C").      *)
(* A Python dict is a sequence of <<key, value>> pairs in insertion order. *)
(***************************************************************************)
EXTENDS Integers, Sequences, FiniteSets, TLC

VARIABLES
    pc,          \* position of the process in main()
    env,         \* os.environ as read by get_csv_source_url
    source_url,  \* main: source_url
    csv,         \* the CSV the fetch returned: [header, rows], after csv.reader
    idx,         \* parse_draws: number of lines of csv.rows the reader consumed
    row_num,     \* parse_draws: row_num of the last record enumerate() yielded
    picked,      \* parse_draws: round_raw, draw_date, bonus_raw, n_values
    draws,       \* parse_draws: draws, then main: draws (sorted)
    err,         \* the exception that ended the run
    file,        \* content of lotto.json: <<>> (no file) or <<record>>
    printed,     \* the summary line main() printed: <<>> or <<count>>
    file0,       \* history: content of lotto.json when the run started
    lastCsv,     \* the sheet: <<the CSV of the preceding run>> when that
                 \* run succeeded and the sheet has not changed since, <<>>
                 \* when the sheet may hold anything
    rerun,       \* history: this run fetched the unchanged sheet
    selected,    \* history: <<the argument of the last write_json call>>
    arg,         \* input of the function under test (SpecDate, SpecNorm)
    ret          \* its result

vars == <<pc, env, source_url, csv, idx, row_num, picked, draws, err, file,
          printed, file0, lastCsv, rerun, selected, arg, ret>>

-----------------------------------------------------------------------------
(* Bounds *)

MaxRows == 2

-----------------------------------------------------------------------------
(* Characters and strings *)

None == <<"<None>">>

Digits == <<"0", "1", "2", "3", "4", "5", "6", "7", "8", "9">>

UpperCase ==
    <<"A", "B", "C", "D", "E", "F", "G", "H", "I", "J", "K", "L", "M",
      "N", "O", "P", "Q", "R", "S", "T", "U", "V", "W", "X", "Y", "Z">>

LowerCase ==
    <<"a", "b", "c", "d", "e", "f", "g", "h", "i", "j", "k", "l", "m",
      "n", "o", "p", "q", "r", "s", "t", "u", "v", "w", "x", "y", "z">>

Hangul ==
    {"U+B108", "U+BC88", "U+BCF4", "U+C2A4", "U+C77C", "U+CC28", "U+CCA8",
     "U+CD94", "U+D638", "U+D68C"}

Whitespace == {" ", "\t"}

Range(s) == {s[i] : i \in 1..Len(s)}

DigitChars == Range(Digits)

UpperChars == Range(UpperCase)

AlnumChars == UpperChars \cup Range(LowerCase) \cup DigitChars \cup Hangul

DigitValOf == [c \in DigitChars |-> (CHOOSE i \in 1..10 : Digits[i] = c) - 1]

LowerOf ==
    [c \in UpperChars |-> LowerCase[CHOOSE i \in 1..26 : UpperCase[i] = c]]

IsDigit(c) == c \in DigitChars

DigitVal(c) == DigitValOf[c]

\* str.lower() on one character
Lower(c) == IF c \in UpperChars THEN LowerOf[c] ELSE c

\* str.isalnum() on one character
IsAlnum(c) == c \in AlnumChars

\* str.strip()
RECURSIVE lstrip(_)
lstrip(s) ==
    IF s # <<>> /\ Head(s) \in Whitespace THEN lstrip(Tail(s)) ELSE s

RECURSIVE rstrip(_)
rstrip(s) ==
    IF s # <<>> /\ s[Len(s)] \in Whitespace
    THEN rstrip(SubSeq(s, 1, Len(s) - 1))
    ELSE s

strip(s) == rstrip(lstrip(s))

\* Python truthiness of a str | None
Truthy(v) == v # None /\ v # <<>>

-----------------------------------------------------------------------------
(* dict *)

HasKey(d, k) == \E i \in 1..Len(d) : d[i][1] = k

\* d.get(k)
dict_get(d, k) ==
    IF HasKey(d, k)
    THEN d[CHOOSE i \in 1..Len(d) : d[i][1] = k][2]
    ELSE None

\* d[k] = v: an existing key keeps its place, a new key goes last
dict_set(d, k, v) ==
    IF HasKey(d, k)
    THEN [i \in 1..Len(d) |-> IF d[i][1] = k THEN <<k, v>> ELSE d[i]]
    ELSE Append(d, <<k, v>>)

-----------------------------------------------------------------------------
(* normalize_key, FIELD_ALIASES, pick_value *)

normalize_key(key) ==
    SelectSeq([i \in 1..Len(key) |-> Lower(key[i])], IsAlnum)

FIELD_ALIASES ==
    [ round |-> << <<"r", "o", "u", "n", "d">>,
                   <<"d", "r", "a", "w", "n", "o">>,
                   <<"d", "r", "a", "w", "n", "u", "m">>,
                   <<"d", "r", "a", "w">>,
                   <<"U+D68C", "U+CC28">> >>,
      date  |-> << <<"d", "a", "t", "e">>,
                   <<"d", "r", "a", "w", "d", "a", "t", "e">>,
                   <<"U+CD94", "U+CCA8", "U+C77C">> >>,
      num1  |-> << <<"n", "u", "m", "1">>,
                   <<"n", "1">>,
                   <<"n", "o", "1">>,
                   <<"U+BC88", "U+D638", "1">> >>,
      num2  |-> << <<"n", "u", "m", "2">>,
                   <<"n", "2">>,
                   <<"n", "o", "2">>,
                   <<"U+BC88", "U+D638", "2">> >>,
      num3  |-> << <<"n", "u", "m", "3">>,
                   <<"n", "3">>,
                   <<"n", "o", "3">>,
                   <<"U+BC88", "U+D638", "3">> >>,
      num4  |-> << <<"n", "u", "m", "4">>,
                   <<"n", "4">>,
                   <<"n", "o", "4">>,
                   <<"U+BC88", "U+D638", "4">> >>,
      num5  |-> << <<"n", "u", "m", "5">>,
                   <<"n", "5">>,
                   <<"n", "o", "5">>,
                   <<"U+BC88", "U+D638", "5">> >>,
      num6  |-> << <<"n", "u", "m", "6">>,
                   <<"n", "6">>,
                   <<"n", "o", "6">>,
                   <<"U+BC88", "U+D638", "6">> >>,
      bonus |-> << <<"b", "o", "n", "u", "s", "n", "u", "m", "b", "e", "r">>,
                   <<"b", "o", "n", "u", "s">>,
                   <<"U+BCF4", "U+B108", "U+C2A4">>,
                   <<"U+BCF4", "U+B108", "U+C2A4", "U+BC88", "U+D638">> >> ]

NumKeys == <<"num1", "num2", "num3", "num4", "num5", "num6">>

pick_value(row, aliases) ==
    IF \E i \in 1..Len(aliases) : Truthy(dict_get(row, aliases[i]))
    THEN dict_get(row,
                  aliases[CHOOSE i \in 1..Len(aliases) :
                              /\ Truthy(dict_get(row, aliases[i]))
                              /\ \A k \in 1..(i - 1) :
                                     ~Truthy(dict_get(row, aliases[k]))])
    ELSE None

-----------------------------------------------------------------------------
(* csv.DictReader and the row comprehension of parse_draws *)

\* One record of DictReader: dict(zip(fieldnames, row)), then restval None
\* for the fields the row is too short for.  Cells beyond the header go
\* under the key None, which the comprehension drops.
RECURSIVE ZipRow(_, _, _, _)
ZipRow(fieldnames, cells, i, d) ==
    IF i > Len(fieldnames)
    THEN d
    ELSE ZipRow(fieldnames, cells, i + 1,
                dict_set(d, fieldnames[i],
                         IF i <= Len(cells) THEN cells[i] ELSE None))

DictRow(fieldnames, cells) == ZipRow(fieldnames, cells, 1, <<>>)

RECURSIVE NormFold(_, _, _)
NormFold(raw_row, i, d) ==
    IF i > Len(raw_row)
    THEN d
    ELSE NormFold(raw_row, i + 1,
                  IF raw_row[i][1] = <<>>
                  THEN d
                  ELSE dict_set(d, normalize_key(raw_row[i][1]),
                                strip(IF raw_row[i][2] = None
                                      THEN <<>>
                                      ELSE raw_row[i][2])))

\* {normalize_key(key): (value or "").strip() for key, value in ... if key}
NormalizedRow(raw_row) == NormFold(raw_row, 1, <<>>)

-----------------------------------------------------------------------------
(* Exceptions *)

NoErr == [kind |-> "none", row |-> 0, field |-> "", value |-> None,
          missing |-> <<>>]

Err(kind, row, field, value, missing) ==
    [kind |-> kind, row |-> row, field |-> field, value |-> value,
     missing |-> missing]

RowErrKinds == {"missing fields", "invalid integer", "invalid date format",
                "invalid calendar date"}

-----------------------------------------------------------------------------
(* parse_int *)

\* int(str): optional sign, then digits, single underscores between digits
IntBody(value) ==
    LET s == strip(value)
    IN  IF s # <<>> /\ s[1] \in {"+", "-"} THEN Tail(s) ELSE s

IntOk(value) ==
    LET b == IntBody(value)
    IN  /\ b # <<>>
        /\ \A i \in 1..Len(b) : IsDigit(b[i]) \/ b[i] = "_"
        /\ IsDigit(b[1])
        /\ IsDigit(b[Len(b)])
        /\ \A i \in 1..(Len(b) - 1) : ~(b[i] = "_" /\ b[i + 1] = "_")

RECURSIVE DigitsVal(_, _)
DigitsVal(b, acc) ==
    IF b = <<>>
    THEN acc
    ELSE DigitsVal(Tail(b),
                   IF Head(b) = "_" THEN acc ELSE 10 * acc + DigitVal(Head(b)))

IntVal(value) ==
    LET s == strip(value)
        n == DigitsVal(IntBody(value), 0)
    IN  IF s[1] = "-" THEN 0 - n ELSE n

parse_int(value, field_name, rn) ==
    IF IntOk(value)
    THEN [err |-> NoErr, val |-> IntVal(value)]
    ELSE [err |-> Err("invalid integer", rn, field_name, value, <<>>),
          val |-> 0]

-----------------------------------------------------------------------------
(* parse_date *)

\* re.match(r"^\d{4}\.\d{2}\.\d{2}$", value); value holds no newline
MatchesDatePattern(value) ==
    /\ Len(value) = 10
    /\ \A i \in {1, 2, 3, 4, 6, 7, 9, 10} : IsDigit(value[i])
    /\ value[5] = "."
    /\ value[8] = "."

IsLeap(y) == (y % 4 = 0) /\ ((y % 100 # 0) \/ (y % 400 = 0))

DaysInMonth(y, m) ==
    IF m = 2 THEN (IF IsLeap(y) THEN 29 ELSE 28)
    ELSE IF m \in {4, 6, 9, 11} THEN 30
    ELSE 31

\* datetime.strptime(value, "%Y.%m.%d") of a value that matches the pattern:
\* %m is 01..12, %d is 01..31, and datetime() wants year >= 1 and a day the
\* month has
StrptimeOk(value) ==
    LET y == DigitsVal(SubSeq(value, 1, 4), 0)
        m == DigitsVal(SubSeq(value, 6, 7), 0)
        d == DigitsVal(SubSeq(value, 9, 10), 0)
    IN  /\ m \in 1..12
        /\ d \in 1..31
        /\ y >= 1
        /\ d <= DaysInMonth(y, m)

\* a plausible slip: the pattern alone decides
parse_date_pattern_only(value, field_name, rn) ==
    IF ~MatchesDatePattern(value)
    THEN [err |-> Err("invalid date format", rn, field_name, value, <<>>),
          val |-> None]
    ELSE [err |-> NoErr, val |-> value]

parse_date(value, field_name, rn) ==
    IF ~MatchesDatePattern(value)
    THEN [err |-> Err("invalid date format", rn, field_name, value, <<>>),
          val |-> None]
    ELSE IF StrptimeOk(value)
    THEN [err |-> NoErr, val |-> value]
    ELSE [err |-> Err("invalid calendar date", rn, field_name, value, <<>>),
          val |-> None]

-----------------------------------------------------------------------------
(* One iteration of the loop of parse_draws, as a function of the record *)

IntFields(round_raw, n_values, bonus_raw) ==
    <<  <<"round", round_raw>> >>
    \o [i \in 1..6 |-> <<NumKeys[i], n_values[i]>>]
    \o << <<"bonus", bonus_raw>> >>

\* a plausible slip: the group is missing only when all six are
MissingFields_all(draw_date, bonus_raw, n_values) ==
    (IF ~Truthy(draw_date) THEN <<"date">> ELSE <<>>)
    \o (IF ~Truthy(bonus_raw) THEN <<"bonus">> ELSE <<>>)
    \o (IF \A i \in 1..6 : ~Truthy(n_values[i])
        THEN <<"num1~num6">> ELSE <<>>)

MissingFields(draw_date, bonus_raw, n_values) ==
    (IF ~Truthy(draw_date) THEN <<"date">> ELSE <<>>)
    \o (IF ~Truthy(bonus_raw) THEN <<"bonus">> ELSE <<>>)
    \o (IF \E i \in 1..6 : ~Truthy(n_values[i])
        THEN <<"num1~num6">> ELSE <<>>)

NoDraw == [round |-> 0, num1 |-> 0, num2 |-> 0, num3 |-> 0, num4 |-> 0,
           num5 |-> 0, num6 |-> 0, bonus |-> 0, date |-> None]

NoPicked == [round_raw |-> None, draw_date |-> None, bonus_raw |-> None,
             n_values |-> <<None, None, None, None, None, None>>]

\* parse_draws below "continue": [kind, err, draw, picked] with kind "raise"
\* (err) or "draw" (draws.append(draw))
RowChecked(row, round_raw, rn) ==
    LET draw_date == pick_value(row, FIELD_ALIASES.date)
        bonus_raw == pick_value(row, FIELD_ALIASES.bonus)
        n_values  == [i \in 1..6 |-> pick_value(row, FIELD_ALIASES[NumKeys[i]])]
        missing   == MissingFields(draw_date, bonus_raw, n_values)
        ints      == IntFields(round_raw, n_values, bonus_raw)
        parsed    == [i \in 1..8 |-> parse_int(ints[i][2], ints[i][1], rn)]
        bad       == {i \in 1..8 : parsed[i].err # NoErr}
        first     == CHOOSE i \in bad : \A j \in bad : i <= j
        date      == parse_date(draw_date, "date", rn)
        all       == [round_raw |-> round_raw, draw_date |-> draw_date,
                      bonus_raw |-> bonus_raw, n_values |-> n_values]
    IN  IF missing # <<>>
        THEN [kind |-> "raise",
              err |-> Err("missing fields", rn, "", None, missing),
              draw |-> NoDraw, picked |-> all]
        ELSE IF bad # {}
        THEN [kind |-> "raise", err |-> parsed[first].err,
              draw |-> NoDraw, picked |-> all]
        ELSE IF date.err # NoErr
        THEN [kind |-> "raise", err |-> date.err, draw |-> NoDraw,
              picked |-> all]
        ELSE [kind |-> "draw", err |-> NoErr,
              draw |-> [round |-> parsed[1].val, num1 |-> parsed[2].val,
                        num2 |-> parsed[3].val, num3 |-> parsed[4].val,
                        num4 |-> parsed[5].val, num5 |-> parsed[6].val,
                        num6 |-> parsed[7].val, bonus |-> parsed[8].val,
                        date |-> date.val],
              picked |-> all]

\* a plausible slip: the row is validated before the blank check
RowOutcome_validate_first(fieldnames, cells, rn) ==
    LET row       == NormalizedRow(DictRow(fieldnames, cells))
        round_raw == pick_value(row, FIELD_ALIASES.round)
        o         == RowChecked(row, round_raw, rn)
    IN  IF o.kind = "raise" \/ Truthy(round_raw)
        THEN o
        ELSE [kind |-> "skip", err |-> NoErr, draw |-> NoDraw,
              picked |-> [NoPicked EXCEPT !.round_raw = round_raw]]

\* one iteration of the loop: kind "skip" (continue), "raise" or "draw"
RowOutcome(fieldnames, cells, rn) ==
    LET row       == NormalizedRow(DictRow(fieldnames, cells))
        round_raw == pick_value(row, FIELD_ALIASES.round)
    IN  IF ~Truthy(round_raw)
        THEN [kind |-> "skip", err |-> NoErr, draw |-> NoDraw,
              picked |-> [NoPicked EXCEPT !.round_raw = round_raw]]
        ELSE RowChecked(row, round_raw, rn)

\* sorted(draws, key=lambda item: item["round"]): stable
RECURSIVE InsertByRound(_, _)
InsertByRound(sorted, d) ==
    IF sorted = <<>>
    THEN <<d>>
    ELSE IF sorted[Len(sorted)].round <= d.round
    THEN Append(sorted, d)
    ELSE Append(InsertByRound(SubSeq(sorted, 1, Len(sorted) - 1), d),
                sorted[Len(sorted)])

RECURSIVE SortFold(_, _, _)
SortFold(ds, i, acc) ==
    IF i > Len(ds) THEN acc ELSE SortFold(ds, i + 1, InsertByRound(acc, ds[i]))

\* a plausible slip: a sort that is not stable (equal rounds end reversed)
RECURSIVE InsertBeforeEqual(_, _)
InsertBeforeEqual(sorted, d) ==
    IF sorted = <<>>
    THEN <<d>>
    ELSE IF sorted[Len(sorted)].round < d.round
    THEN Append(sorted, d)
    ELSE Append(InsertBeforeEqual(SubSeq(sorted, 1, Len(sorted) - 1), d),
                sorted[Len(sorted)])

RECURSIVE UnstableFold(_, _, _)
UnstableFold(ds, i, acc) ==
    IF i > Len(ds)
    THEN acc
    ELSE UnstableFold(ds, i + 1, InsertBeforeEqual(acc, ds[i]))

SortedByRound_unstable(ds) == UnstableFold(ds, 1, <<>>)

SortedByRound(ds) == SortFold(ds, 1, <<>>)

-----------------------------------------------------------------------------
(* The inputs *)

\* the header of the spreadsheet export
StdHeader ==
    << <<"r", "o", "u", "n", "d">>,
       <<"d", "a", "t", "e">>,
       <<"n", "u", "m", "1">>,
       <<"n", "u", "m", "2">>,
       <<"n", "u", "m", "3">>,
       <<"n", "u", "m", "4">>,
       <<"n", "u", "m", "5">>,
       <<"n", "u", "m", "6">>,
       <<"b", "o", "n", "u", "s", "N", "u", "m", "b", "e", "r">> >>

\* other spellings the alias table knows
AltHeader ==
    << <<"D", "r", "a", "w", " ", "N", "o">>,
       <<"U+CD94", "U+CCA8", "U+C77C">>,
       <<"N", "1">>,
       <<"n", "o", "2">>,
       <<"U+BC88", "U+D638", "3">>,
       <<"N", "U", "M", "_", "4">>,
       <<"n", "5">>,
       <<"N", "o", ".", "6">>,
       <<"B", "o", "n", "u", "s">> >>

\* a sheet without a round column
NoRoundHeader ==
    << <<"m", "e", "m", "o">>,
       <<"d", "a", "t", "e">>,
       <<"n", "u", "m", "1">>,
       <<"n", "u", "m", "2">>,
       <<"n", "u", "m", "3">>,
       <<"n", "u", "m", "4">>,
       <<"n", "u", "m", "5">>,
       <<"n", "u", "m", "6">>,
       <<"b", "o", "n", "u", "s">> >>

\* valid, round 1
RowV1 ==
    << <<"1">>,
       <<"2", "0", "2", "4", ".", "0", "1", ".", "0", "6">>,
       <<"1">>,
       <<"2">>,
       <<"3">>,
       <<"4">>,
       <<"5">>,
       <<"6">>,
       <<"7">> >>

\* valid, round 2
RowV2 ==
    << <<"2">>,
       <<"2", "0", "2", "4", ".", "0", "1", ".", "1", "3">>,
       <<"8">>,
       <<"9">>,
       <<"1", "0">>,
       <<"1", "1">>,
       <<"1", "2">>,
       <<"1", "3">>,
       <<"1", "4">> >>

\* valid, round 2 again under another spelling
RowV2b ==
    << <<"0", "2">>,
       <<"2", "0", "2", "4", ".", "0", "2", ".", "2", "9">>,
       <<"2", "1">>,
       <<"2", "2">>,
       <<"2", "3">>,
       <<"2", "4">>,
       <<"2", "5">>,
       <<"2", "6">>,
       <<"2", "7">> >>

\* blank round cell, the other cells invalid
RowBlank ==
    << <<" ">>,
       <<"2", "0", "2", "4", "-", "0", "1", "-", "0", "6">>,
       <<"x">>,
       <<>>,
       <<"3">>,
       <<"4">>,
       <<"5">>,
       <<"6">> >>

\* an empty line: csv.reader yields [] and DictReader passes over it
RowEmptyLine == <<>>

\* too short for the header: bonus is None
RowNoBonus ==
    << <<"3">>,
       <<"2", "0", "2", "4", ".", "0", "1", ".", "2", "0">>,
       <<"1">>,
       <<"2">>,
       <<"3">>,
       <<"4">>,
       <<"5">>,
       <<"6">> >>

\* num3 is no integer
RowBadInt ==
    << <<"3">>,
       <<"2", "0", "2", "4", ".", "0", "1", ".", "2", "0">>,
       <<"1">>,
       <<"2">>,
       <<"1", ".", "5">>,
       <<"4">>,
       <<"5">>,
       <<"6">>,
       <<"7">> >>

\* the pattern matches, the day does not exist
RowBadDate ==
    << <<"3">>,
       <<"2", "0", "2", "4", ".", "0", "2", ".", "3", "0">>,
       <<"1">>,
       <<"2">>,
       <<"3">>,
       <<"4">>,
       <<"5">>,
       <<"6">>,
       <<"7">> >>

\* date and num5 empty
RowNoDateNum ==
    << <<"4">>,
       <<>>,
       <<"1">>,
       <<"2">>,
       <<"3">>,
       <<"4">>,
       <<" ">>,
       <<"6">>,
       <<"7">> >>

\* only the round cell
RowOnlyRound ==
    << <<"4">> >>

\* round is no integer
RowBadRound ==
    << <<"x", "1">>,
       <<"2", "0", "2", "4", ".", "0", "1", ".", "2", "7">>,
       <<"1">>,
       <<"2">>,
       <<"3">>,
       <<"4">>,
       <<"5">>,
       <<"6">>,
       <<"7">> >>

\* bonus is no integer
RowBadBonus ==
    << <<"4">>,
       <<"2", "0", "2", "4", ".", "0", "1", ".", "2", "7">>,
       <<"1">>,
       <<"2">>,
       <<"3">>,
       <<"4">>,
       <<"5">>,
       <<"6">>,
       <<"7", "a">> >>

\* date in another format
RowBadFormat ==
    << <<"4">>,
       <<"2", "0", "2", "4", "-", "0", "1", "-", "2", "7">>,
       <<"1">>,
       <<"2">>,
       <<"3">>,
       <<"4">>,
       <<"5">>,
       <<"6">>,
       <<"7">> >>

\* bonus empty and num1 no integer
RowMissingAndBad ==
    << <<"4">>,
       <<"2", "0", "2", "4", ".", "0", "1", ".", "2", "7">>,
       <<"x">>,
       <<"2">>,
       <<"3">>,
       <<"4">>,
       <<"5">>,
       <<"6">>,
       <<>> >>

\* num6 no integer and the date invalid
RowBadIntAndDate ==
    << <<"4">>,
       <<"2", "0", "2", "4", ".", "1", "3", ".", "2", "7">>,
       <<"1">>,
       <<"2">>,
       <<"3">>,
       <<"4">>,
       <<"5">>,
       <<"6", "_">>,
       <<"7">> >>

\* valid: int() takes a sign and underscores, cells are stripped
RowSigned ==
    << <<" ", "+", "4", " ">>,
       <<"2", "0", "2", "4", ".", "0", "1", ".", "2", "7">>,
       <<"1", "_", "0">>,
       <<"-", "2">>,
       <<"3">>,
       <<"4">>,
       <<"5">>,
       <<"6">>,
       <<"7">> >>

\* valid, with a cell beyond the header
RowLong ==
    << <<"5">>,
       <<"2", "0", "2", "4", ".", "0", "2", ".", "0", "3">>,
       <<"1">>,
       <<"2">>,
       <<"3">>,
       <<"4">>,
       <<"5">>,
       <<"6">>,
       <<"7">>,
       <<"n", "o", "t", "e">> >>

\* what lotto.json may hold before the first run
OldRecord ==
    [round |-> 99, num1 |-> 40, num2 |-> 41, num3 |-> 42, num4 |-> 43,
     num5 |-> 44, num6 |-> 45, bonus |-> 39,
     date |-> <<"2", "0", "2", "3", ".", "1", "2", ".", "3", "0">>]

FilePool == {<<>>, <<OldRecord>>}

CoreRows == {RowV1, RowV2, RowV2b, RowBlank, RowEmptyLine, RowNoBonus,
             RowBadInt}

EdgeRows == {RowBadDate, RowNoDateNum, RowOnlyRound, RowBadRound, RowBadBonus,
             RowBadFormat, RowMissingAndBad, RowBadIntAndDate, RowSigned,
             RowLong}

SeqsUpTo(S, n) == UNION {[1..k -> S] : k \in 0..n}

Csv(header, rows) == [header |-> header, rows |-> rows]

NoCsv == Csv(<<>>, <<>>)

\* csv_text.splitlines() through csv.reader: the first line is the header
CsvPool ==
    {Csv(StdHeader, rows) : rows \in SeqsUpTo(CoreRows, MaxRows)}
    \cup {Csv(StdHeader, pre \o <<e>> \o suf) :
              pre \in {<<>>, <<RowV1>>, <<RowEmptyLine>>},
              e \in EdgeRows,
              suf \in {<<>>, <<RowV2>>, <<RowBadDate>>}}
    \cup {Csv(h, rows) : h \in {AltHeader, NoRoundHeader},
                          rows \in SeqsUpTo(CoreRows, 1)}
    \cup {Csv(<<>>, rows) : rows \in {<<>>, <<StdHeader, RowV1>>}}

EnvPool ==
    { << <<"GOOGLE_SHEET_CSV_URL", <<"https://example.test/lotto.csv">> >> >>,
      << <<"GOOGLE_SHEET_CSV_URL", <<>> >>,
         <<"GOOGLE_SHEET_ID", <<"sheet-1">> >> >>,
      << <<"GOOGLE_SHEET_ID", <<"sheet-1">> >>,
         <<"GOOGLE_SHEET_GID", <<"42">> >> >>,
      << <<"GOOGLE_SHEET_GID", <<"42">> >> >>,
      << <<"GOOGLE_SHEET_ID", <<>> >> >> }

-----------------------------------------------------------------------------
(* get_csv_source_url *)

\* os.getenv(name, default)
getenv(e, name, default) ==
    IF HasKey(e, name) THEN dict_get(e, name) ELSE default

ExportUrl(sheet_id, gid) ==
    <<"https://docs.google.com/spreadsheets/d/">> \o sheet_id
    \o <<"/export?format=csv&gid=">> \o gid

\* [err, url]
get_csv_source_url(e) ==
    LET custom_url == getenv(e, "GOOGLE_SHEET_CSV_URL", None)
        sheet_id   == getenv(e, "GOOGLE_SHEET_ID", None)
        gid        == getenv(e, "GOOGLE_SHEET_GID", <<"0">>)
    IN  IF Truthy(custom_url)
        THEN [err |-> NoErr, url |-> custom_url]
        ELSE IF ~Truthy(sheet_id)
        THEN [err |-> Err("configuration", 0, "GOOGLE_SHEET_ID", None, <<>>),
              url |-> None]
        ELSE [err |-> NoErr, url |-> ExportUrl(sheet_id, gid)]

-----------------------------------------------------------------------------
(* write_json *)

\* a plausible slip: the record on disk is kept when its round is larger
write_json_merge(old, data) ==
    IF old # <<>> /\ old[1].round > data.round THEN old ELSE <<data>>

\* path.write_text(json.dumps(data) + "\n"): the new content of the file
write_json(old, data) == <<data>>

-----------------------------------------------------------------------------
(* The process *)

EnumerateStartOne == 2 - 1

\* enumerate(reader, start=2)
EnumerateStart == 2

\* the lines of csv.rows the reader has not passed and that hold a record
Pending == {j \in (idx + 1)..Len(csv.rows) : csv.rows[j] # <<>>}

Raise(e) ==
    /\ pc' = "failed"
    /\ err' = e

\* the process has not started: nothing read, nothing parsed
ProcessIdle ==
    /\ env = <<>>
    /\ source_url = None
    /\ csv = NoCsv
    /\ idx = 0
    /\ row_num = 0
    /\ picked = NoPicked
    /\ draws = <<>>
    /\ err = NoErr
    /\ printed = <<>>
    /\ lastCsv = <<>>
    /\ rerun = FALSE
    /\ selected = <<>>

Init ==
    /\ pc = "idle"
    /\ ProcessIdle
    /\ file \in FilePool
    /\ file0 = file
    /\ arg = <<>>
    /\ ret = <<>>

\* a new process: main() up to source_url = get_csv_source_url()
GetCsvSourceUrl ==
    /\ pc \in {"idle", "done", "failed"}
    /\ \E e \in EnvPool :
           /\ env' = e
           /\ LET r == get_csv_source_url(e)
              IN  IF r.err # NoErr
                  THEN Raise(r.err) /\ source_url' = None
                  ELSE pc' = "resolved" /\ err' = NoErr /\ source_url' = r.url
    /\ lastCsv' \in (IF pc = "done" THEN {<<>>, <<csv>>} ELSE {<<>>})
    /\ csv' = NoCsv
    /\ rerun' = FALSE
    /\ file0' = file
    /\ idx' = 0
    /\ row_num' = 0
    /\ picked' = NoPicked
    /\ draws' = <<>>
    /\ printed' = <<>>
    /\ UNCHANGED <<file, selected, arg, ret>>

\* csv_text = fetch_csv_text(source_url): the text, or a transport error
FetchCsvText ==
    /\ pc = "resolved"
    /\ \/ \E c \in (IF lastCsv = <<>> THEN CsvPool ELSE {lastCsv[1]}) :
              /\ csv' = c
              /\ rerun' = (lastCsv # <<>>)
              /\ pc' = "fetched"
              /\ err' = NoErr
       \/ /\ Raise(Err("fetch", 0, "", source_url, <<>>))
          /\ csv' = NoCsv
          /\ rerun' = FALSE
    /\ lastCsv' = <<>>
    /\ UNCHANGED <<env, source_url, idx, row_num, picked, draws, file, printed,
                   file0, selected, arg, ret>>

\* parse_draws: reader = csv.DictReader(...); if not reader.fieldnames: raise
OpenReader ==
    /\ pc = "fetched"
    /\ IF csv.header = <<>>
       THEN Raise(Err("header not found", 0, "", None, <<>>))
       ELSE pc' = "parsing" /\ err' = NoErr
    /\ UNCHANGED <<env, source_url, csv, idx, row_num, picked, draws, file,
                   printed, file0, lastCsv, rerun, selected, arg, ret>>

\* a plausible slip: a row that does not validate is passed over
ParseRow_skip_invalid ==
    /\ pc = "parsing"
    /\ Pending # {}
    /\ LET j  == CHOOSE k \in Pending : \A m \in Pending : k <= m
           rn == IF row_num = 0 THEN EnumerateStart ELSE row_num + 1
           o  == RowOutcome(csv.header, csv.rows[j], rn)
       IN  /\ idx' = j
           /\ row_num' = rn
           /\ picked' = IF o.kind = "skip"
                        THEN [picked EXCEPT !.round_raw = o.picked.round_raw]
                        ELSE o.picked
           /\ draws' = IF o.kind = "draw" THEN Append(draws, o.draw) ELSE draws
           /\ UNCHANGED <<pc, err>>
    /\ UNCHANGED <<env, source_url, csv, file, printed, file0, lastCsv, rerun,
                   selected, arg, ret>>

\* a plausible slip: each draw is written out as soon as it is parsed
ParseRow_write_through ==
    /\ pc = "parsing"
    /\ Pending # {}
    /\ LET j  == CHOOSE k \in Pending : \A m \in Pending : k <= m
           rn == IF row_num = 0 THEN EnumerateStart ELSE row_num + 1
           o  == RowOutcome(csv.header, csv.rows[j], rn)
       IN  /\ idx' = j
           /\ row_num' = rn
           /\ picked' = IF o.kind = "skip"
                        THEN [picked EXCEPT !.round_raw = o.picked.round_raw]
                        ELSE o.picked
           /\ draws' = IF o.kind = "draw" THEN Append(draws, o.draw) ELSE draws
           /\ file' = IF o.kind = "draw" THEN write_json(file, o.draw) ELSE file
           /\ IF o.kind = "raise" THEN Raise(o.err) ELSE UNCHANGED <<pc, err>>
    /\ UNCHANGED <<env, source_url, csv, printed, file0, lastCsv, rerun,
                   selected, arg, ret>>

\* parse_draws: one iteration of "for row_num, raw_row in enumerate(reader,
\* start=2)": the reader passes the empty lines and yields the next record
ParseRow ==
    /\ pc = "parsing"
    /\ Pending # {}
    /\ LET j  == CHOOSE k \in Pending : \A m \in Pending : k <= m
           rn == IF row_num = 0 THEN EnumerateStart ELSE row_num + 1
           o  == RowOutcome(csv.header, csv.rows[j], rn)
       IN  /\ idx' = j
           /\ row_num' = rn
           /\ picked' = IF o.kind = "skip"
                        THEN [picked EXCEPT !.round_raw = o.picked.round_raw]
                        ELSE o.picked
           /\ draws' = IF o.kind = "draw" THEN Append(draws, o.draw) ELSE draws
           /\ IF o.kind = "raise" THEN Raise(o.err) ELSE UNCHANGED <<pc, err>>
    /\ UNCHANGED <<env, source_url, csv, file, printed, file0, lastCsv, rerun,
                   selected, arg, ret>>

\* a plausible slip: no check that a draw was parsed
FinishParse_no_check ==
    /\ pc = "parsing"
    /\ Pending = {}
    /\ idx' = Len(csv.rows)
    /\ pc' = "parsed"
    /\ draws' = SortedByRound(draws)
    /\ UNCHANGED <<env, source_url, csv, row_num, picked, file, printed,
                   file0, lastCsv, rerun, selected, err, arg, ret>>

\* parse_draws: the reader is exhausted; if not draws: raise; return sorted(...)
FinishParse ==
    /\ pc = "parsing"
    /\ Pending = {}
    /\ idx' = Len(csv.rows)
    /\ IF draws = <<>>
       THEN Raise(Err("no valid draw rows", 0, "", None, <<>>))
            /\ draws' = draws
       ELSE pc' = "parsed" /\ err' = NoErr /\ draws' = SortedByRound(draws)
    /\ UNCHANGED <<env, source_url, csv, row_num, picked, file, printed,
                   file0, lastCsv, rerun, selected, arg, ret>>

\* write_outputs(draws): write_json(Path("lotto.json"), dict(draws[-1]))
WriteOutputs ==
    /\ pc = "parsed"
    /\ IF draws = <<>>
       THEN Raise(Err("IndexError", 0, "", None, <<>>))
            /\ UNCHANGED <<file, selected>>
       ELSE /\ pc' = "written"
            /\ err' = NoErr
            /\ selected' = <<draws[Len(draws)]>>
            /\ file' = write_json(file, draws[Len(draws)])
    /\ UNCHANGED <<env, source_url, csv, idx, row_num, picked, draws, printed,
                   file0, lastCsv, rerun, arg, ret>>

\* print(f"Synced {len(draws)} draw(s) from: {source_url} -> lotto.json")
PrintSummary ==
    /\ pc = "written"
    /\ printed' = <<[count |-> Len(draws), url |-> source_url]>>
    /\ pc' = "done"
    /\ UNCHANGED <<env, source_url, csv, idx, row_num, picked, draws, err, file,
                   file0, lastCsv, rerun, selected, arg, ret>>

Next ==
    \/ GetCsvSourceUrl
    \/ FetchCsvText
    \/ OpenReader
    \/ ParseRow
    \/ FinishParse
    \/ WriteOutputs
    \/ PrintSummary

Spec == Init /\ [][Next]_vars

-----------------------------------------------------------------------------
(* parse_date and the normalization of one row, each applied to inputs of  *)
(* its own                                                                 *)

DateYears ==
    {<<"0", "0", "0", "0">>,
     <<"0", "0", "0", "1">>,
     <<"1", "9", "0", "0">>,
     <<"2", "0", "0", "0">>,
     <<"2", "0", "2", "3">>,
     <<"2", "0", "2", "4">>,
     <<"9", "9", "9", "9">>}

DateMonths ==
    {<<"0", "0">>,
     <<"0", "1">>,
     <<"0", "2">>,
     <<"0", "4">>,
     <<"1", "2">>,
     <<"1", "3">>}

DateDays ==
    {<<"0", "0">>,
     <<"0", "1">>,
     <<"2", "8">>,
     <<"2", "9">>,
     <<"3", "0">>,
     <<"3", "1">>,
     <<"3", "2">>}

\* values that are no yyyy.mm.dd
OtherDates ==
    {<<>>,
     <<"2", "0", "2", "4", "-", "0", "1", "-", "0", "6">>,
     <<"2", "0", "2", "4", ".", "1", ".", "6">>,
     <<"2", "4", ".", "0", "1", ".", "0", "6">>,
     <<"2", "0", "2", "4", ".", "0", "1", ".", "0", "6", "1">>,
     <<"2", "0", "2", "4", ".", "0", "1", ".", "0", "a">>,
     <<"2", "0", "2", "4", "0", "1", "0", "6">>,
     <<"2", "0", "2", "4", "/", "0", "1", "/", "0", "6">>,
     <<"x", "0", "2", "4", ".", "0", "1", ".", "0", "6">>,
     <<"2", "0", "2", "4", ".", "0", "1", ".", "0", "6", ".">>}

DatePool ==
    {y \o <<".">> \o m \o <<".">> \o d :
         y \in DateYears, m \in DateMonths, d \in DateDays}
    \cup OtherDates

\* spellings of the round column, and other columns
HeaderNames ==
    {<<"D", "r", "a", "w", " ", "N", "o">>,
     <<"d", "r", "a", "w", "n", "o">>,
     <<"D", "R", "A", "W", "_", "N", "O">>,
     <<"U+D68C", "U+CC28">>,
     <<"r", "o", "u", "n", "d">>,
     <<"R", "O", "U", "N", "D">>,
     <<"d", "r", "a", "w">>,
     <<"B", "o", "n", "u", "s">>,
     <<"m", "e", "m", "o">>,
     <<>>}

CellValues ==
    {<<>>,
     <<" ">>,
     <<"5">>,
     <<" ", "7", " ">>}

CanonicalKeys == {"round", "date", "num1", "num2", "num3", "num4", "num5",
                  "num6", "bonus"}

InitDate ==
    /\ pc = "call"
    /\ ProcessIdle
    /\ file = <<>>
    /\ file0 = <<>>
    /\ arg \in {[value |-> v, row_num |-> n] : v \in DatePool, n \in {2, 5}}
    /\ ret = <<>>

\* parse_date(value, "date", row_num)
CallParseDate ==
    /\ pc = "call"
    /\ ret' = <<parse_date(arg.value, "date", arg.row_num)>>
    /\ pc' = "return"
    /\ UNCHANGED <<env, source_url, csv, idx, row_num, picked, draws, err, file,
                   printed, file0, lastCsv, rerun, selected, arg>>

SpecDate == InitDate /\ [][CallParseDate]_vars

InitNorm ==
    /\ pc = "call"
    /\ ProcessIdle
    /\ file = <<>>
    /\ file0 = <<>>
    /\ arg \in {[fieldnames |-> <<h1, h2>>, cells |-> cells] :
                    h1 \in HeaderNames, h2 \in HeaderNames,
                    cells \in SeqsUpTo(CellValues, 2) \ {<<>>}}
    /\ ret = <<>>

\* the row comprehension of parse_draws, then pick_value for every key
CallNormalize ==
    /\ pc = "call"
    /\ LET row == NormalizedRow(DictRow(arg.fieldnames, arg.cells))
       IN  ret' = [k \in CanonicalKeys |-> pick_value(row, FIELD_ALIASES[k])]
    /\ pc' = "return"
    /\ UNCHANGED <<env, source_url, csv, idx, row_num, picked, draws, err, file,
                   printed, file0, lastCsv, rerun, selected, arg>>

SpecNorm == InitNorm /\ [][CallNormalize]_vars

-----------------------------------------------------------------------------
(* What the properties say of a CSV, read off its lines *)

\* the lines up to line j that hold a record (an empty line holds none)
Yielded(c, j) == {i \in 1..j : c.rows[i] # <<>>}

\* the row number enumerate() gives the record on line j
CodeRowNum(c, j) == EnumerateStart + Cardinality(Yielded(c, j)) - 1

\* what the loop body does with each record of the inputs, tabulated
OutcomeOf ==
    [h \in {StdHeader, AltHeader, NoRoundHeader},
     r \in (CoreRows \cup EdgeRows) \ {<<>>},
     n \in EnumerateStart..(EnumerateStart + MaxRows + 3) |->
        RowOutcome(h, r, n)]

Outcome(c, j) == OutcomeOf[c.header, c.rows[j], CodeRowNum(c, j)]

\* the lines whose record does not validate
Invalid(c) ==
    {j \in 1..Len(c.rows) : c.rows[j] # <<>> /\ Outcome(c, j).kind = "raise"}

Least(S) == CHOOSE j \in S : \A k \in S : j <= k

\* the round cell, trimmed: the first column under StdHeader and under
\* AltHeader, absent under NoRoundHeader and on an empty line
RoundCell(c, j) ==
    IF c.header # NoRoundHeader /\ Len(c.rows[j]) >= 1
    THEN strip(c.rows[j][1])
    ELSE <<>>

\* the lines with a record whose round cell is not blank
NonBlank(c) == {j \in 1..Len(c.rows) : RoundCell(c, j) # <<>>}

\* the draws of a CSV in source order
RECURSIVE DrawsFrom(_, _)
DrawsFrom(c, j) ==
    IF j > Len(c.rows)
    THEN <<>>
    ELSE IF c.rows[j] # <<>> /\ Outcome(c, j).kind = "draw"
    THEN <<Outcome(c, j).draw>> \o DrawsFrom(c, j + 1)
    ELSE DrawsFrom(c, j + 1)

Reading == pc \in {"parsing", "parsed", "written", "done"}
              \/ (pc = "failed" /\ csv.header # <<>>)

Succeeded == pc \in {"written", "done"}

RowFailure == pc = "failed" /\ err.kind \in RowErrKinds

-----------------------------------------------------------------------------
(* Properties *)

\* C1: a run that fails leaves lotto.json as it was when the run started and
\* prints no summary; the file differs from its content at the start only
\* after the write, and the write happens only when the reader is exhausted
\* and no record of the CSV is invalid.
C1_FailureWritesNothing ==
    /\ pc = "failed" => file = file0 /\ printed = <<>>
    /\ file # file0 => Succeeded
    /\ printed # <<>> => pc = "done"
    /\ Succeeded => Invalid(csv) = {} /\ idx = Len(csv.rows)

\* C1 happens: a run failed on a row after it had parsed a draw, with a file
\* on disk
C1_Witness ==
    /\ RowFailure
    /\ draws # <<>>
    /\ file0 # <<>>

\* C2: the record written is a draw of the CSV with the largest round, and
\* among the draws with that round the last one in source order.
C2_LatestDrawWritten ==
    Succeeded =>
        LET ds == DrawsFrom(csv, 1)
            top == {i \in 1..Len(ds) : \A j \in 1..Len(ds) :
                                           ds[j].round <= ds[i].round}
            last == 0 - Least({0 - i : i \in top})
        IN  /\ ds # <<>>
            /\ file = <<ds[last]>>

\* C2 happens: two different draws share the largest round
C2_Witness ==
    /\ pc = "done"
    /\ \E i, j \in 1..Len(draws) :
           /\ i < j
           /\ draws[i] # draws[j]
           /\ draws[i].round = draws[j].round
           /\ \A k \in 1..Len(draws) : draws[k].round <= draws[i].round

\* C3: when a record of the CSV is invalid, the run never gets past the
\* first such record: it fails there with that record's error, whatever
\* follows, and it writes and prints nothing.
C3_FailFastInSourceOrder ==
    Reading =>
        LET bad == Invalid(csv)
            k == Least(bad)
        IN  bad # {} =>
                /\ idx <= k
                /\ ~Succeeded /\ pc # "parsed"
                /\ pc = "failed" =>
                       /\ idx = k
                       /\ err = Outcome(csv, k).err
                       /\ draws = DrawsFrom([csv EXCEPT
                                                !.rows = SubSeq(@, 1, k)], 1)
                       /\ file = file0
                       /\ printed = <<>>

\* C3 happens: the run failed on a row with valid rows before it and rows
\* after it
C3_Witness ==
    /\ RowFailure
    /\ draws # <<>>
    /\ idx < Len(csv.rows)

\* C4 as stated: the row number of a row error is the position of the row
\* counting from the row after the header (the first data row is row 1).
C4_RowNumberFromOne ==
    RowFailure => err.row = Cardinality(Yielded(csv, idx))

\* C4 amended: the row number of a row error is one more than the position
\* of the record among the records after the header, empty lines not
\* counted: the header is row 1 and the first record is row 2.
C4_RowNumberFromTwo ==
    RowFailure =>
        /\ csv.rows[idx] # <<>>
        /\ err.row = 1 + Cardinality(Yielded(csv, idx))
        /\ (Yielded(csv, idx) = {idx}) => err.row = 2

\* C4 happens: a row error after a record and an empty line
C4_Witness ==
    /\ RowFailure
    /\ Cardinality(Yielded(csv, idx)) >= 2
    /\ Cardinality(Yielded(csv, idx)) < idx

\* C5: for a row with a round, the missing-fields error is raised iff date,
\* bonus or one of num1..num6 is absent or empty, and it lists exactly
\* "date", "bonus", "num1~num6" for those that are.
C5_MissingFieldsExact ==
    (/\ pc \in {"parsing", "failed"}
     /\ row_num > 0
     /\ Truthy(picked.round_raw)
     /\ pc = "failed" => err.kind \in RowErrKinds) =>
        LET listed == {"date" : x \in {1} \cap
                                 (IF Truthy(picked.draw_date) THEN {} ELSE {1})}
                      \cup {"bonus" : x \in {1} \cap
                                 (IF Truthy(picked.bonus_raw) THEN {} ELSE {1})}
                      \cup {"num1~num6" : i \in {i \in 1..6 :
                                              ~Truthy(picked.n_values[i])}}
            raised == pc = "failed" /\ err.kind = "missing fields"
        IN  /\ raised <=> listed # {}
            /\ raised =>
                   /\ Range(err.missing) = listed
                   /\ Len(err.missing) = Cardinality(listed)
                   /\ err.row = row_num

\* C5 happens: a row that lacks only its bonus
C5_Witness ==
    /\ RowFailure
    /\ err.missing = <<"bonus">>
    /\ Truthy(picked.draw_date)
    /\ \A i \in 1..6 : Truthy(picked.n_values[i])

\* C6: a row with a blank round cell raises nothing and adds no draw,
\* whatever its other cells hold; every other record adds one draw or ends
\* the run; the summary counts the rows with a round.
C6_OnlyBlankRowsSkipped ==
    Reading =>
        /\ RowFailure => idx \in NonBlank(csv)
        /\ pc \in {"parsing", "failed"} =>
               Len(draws) = Cardinality({j \in NonBlank(csv) : j <= idx})
                            - (IF RowFailure THEN 1 ELSE 0)
        /\ pc \in {"parsed", "written", "done"} =>
               Len(draws) = Cardinality(NonBlank(csv))
        /\ pc = "done" => printed = <<[count |-> Cardinality(NonBlank(csv)),
                                       url |-> source_url]>>

\* C6 happens: a run succeeded on a CSV with a blank-round row whose other
\* cells are invalid
C6_Witness ==
    /\ pc = "done"
    /\ \E j \in 1..Len(csv.rows) : csv.rows[j] = RowBlank
    /\ printed[1].count = Len(csv.rows) - 1

\* C8: a CSV with a header and no row with a round ends in the empty-result
\* error, never in success, and nothing is written.
C8_EmptyResultFails ==
    (Reading /\ NonBlank(csv) = {}) =>
        /\ ~Succeeded /\ pc # "parsed"
        /\ pc = "failed" => /\ err.kind = "no valid draw rows"
                            /\ file = file0
                            /\ printed = <<>>

\* C8 happens: the run failed on a CSV whose rows are all blank
C8_Witness ==
    /\ pc = "failed"
    /\ err.kind = "no valid draw rows"
    /\ \E j \in 1..Len(csv.rows) : csv.rows[j] = RowBlank

\* C10: the file holds exactly the record the last successful run selected,
\* whatever it held before, and a run on the unchanged sheet of the run
\* before leaves the content that run left.
C10_Overwrite ==
    /\ selected # <<>> => file = selected
    /\ Succeeded => selected = <<draws[Len(draws)]>>
    /\ (Succeeded /\ rerun) => file = file0

\* C10 happens: a rerun succeeded, and a run replaced a file holding a
\* larger round
C10_Witness ==
    /\ pc = "done"
    /\ rerun
    /\ file0[1].round < OldRecord.round

-----------------------------------------------------------------------------
(* Properties of parse_date (SpecDate) *)

TwoDigits(v, i) == 10 * DigitValOf[v[i]] + DigitValOf[v[i + 1]]

YearOf(v) == 100 * TwoDigits(v, 1) + TwoDigits(v, 3)

MonthLengths == <<31, 28, 31, 30, 31, 30, 31, 31, 30, 31, 30, 31>>

LeapYear(y) == y % 400 = 0 \/ (y % 4 = 0 /\ y % 100 # 0)

\* four digits, ".", two digits, ".", two digits
HasDateShape(v) ==
    /\ Len(v) = 10
    /\ <<v[5], v[8]>> = <<".", ".">>
    /\ {v[i] : i \in (1..10) \ {5, 8}} \subseteq DigitChars

\* month 1..12 and a day the month has, leap years counted
MonthAndDayExist(v) ==
    LET m == TwoDigits(v, 6)
        d == TwoDigits(v, 9)
    IN  /\ m \in 1..12
        /\ d >= 1
        /\ d <= (IF m = 2 /\ LeapYear(YearOf(v)) THEN 29 ELSE MonthLengths[m])

Date_2024_02_30 == <<"2", "0", "2", "4", ".", "0", "2", ".", "3", "0">>

Returned == pc = "return" /\ ret # <<>>

DateErrorIs(kind) ==
    /\ ret[1].err.kind = kind
    /\ ret[1].err.row = arg.row_num
    /\ ret[1].err.value = arg.value
    /\ ret[1].err.field = "date"

\* C9 as stated: a date is accepted iff it has the shape yyyy.mm.dd and its
\* month is 1..12 and its day is within the month; the two failures give two
\* errors, each with the row and the value; an accepted date is unchanged.
C9_AcceptedIffShapeAndMonthDay ==
    Returned =>
        /\ ret[1].err = NoErr <=>
               (HasDateShape(arg.value) /\ MonthAndDayExist(arg.value))
        /\ ~HasDateShape(arg.value) => DateErrorIs("invalid date format")
        /\ (HasDateShape(arg.value) /\ ~MonthAndDayExist(arg.value)) =>
               DateErrorIs("invalid calendar date")
        /\ ret[1].err = NoErr => ret[1].val = arg.value

\* C9 amended: as stated, with the year 0001..9999: a date of the year 0000
\* has the shape and is rejected with the invalid-calendar-date error.
C9_AcceptedIffShapeAndDate ==
    Returned =>
        LET real == /\ YearOf(arg.value) >= 1
                    /\ MonthAndDayExist(arg.value)
        IN  /\ ret[1].err = NoErr <=> (HasDateShape(arg.value) /\ real)
            /\ ~HasDateShape(arg.value) => DateErrorIs("invalid date format")
            /\ (HasDateShape(arg.value) /\ ~real) =>
                   DateErrorIs("invalid calendar date")
            /\ ret[1].err = NoErr => ret[1].val = arg.value
            /\ arg.value = Date_2024_02_30 =>
                   DateErrorIs("invalid calendar date")

\* C9 happens: 2024.02.30 has the shape and is rejected as no calendar date
C9_Witness ==
    /\ Returned
    /\ arg.value = Date_2024_02_30
    /\ HasDateShape(arg.value)
    /\ ret[1].err.kind = "invalid calendar date"

-----------------------------------------------------------------------------
(* Properties of the normalization (SpecNorm) *)

\* the header lower-cased, without its non-alphanumeric characters
Folded(h) ==
    LET low == [i \in 1..Len(h) |->
                    IF h[i] \in UpperChars THEN LowerOf[h[i]] ELSE h[i]]
        keep == {i \in 1..Len(h) : low[i] \in AlnumChars}
        nth(n) == CHOOSE i \in keep : Cardinality({j \in keep : j <= i}) = n
    IN  [n \in 1..Cardinality(keep) |-> low[nth(n)]]

\* the non-empty trimmed values the row holds under a header equal to alias
ValuesUnder(a, alias) ==
    {strip(a.cells[j]) : j \in {j \in 1..Len(a.cells) :
                                    /\ j <= Len(a.fieldnames)
                                    /\ Folded(a.fieldnames[j]) = alias}}
    \ {<<>>}

PickedAsClaimed(a, k, v) ==
    LET aliases == FIELD_ALIASES[k]
        hits == {i \in 1..Len(aliases) : ValuesUnder(a, aliases[i]) # {}}
        first == CHOOSE i \in hits : \A j \in hits : i <= j
    IN  IF hits = {}
        THEN v = None
        ELSE v \in ValuesUnder(a, aliases[first])

\* C7: every key gets the trimmed value of the first alias of its list for
\* which the row holds a non-empty value under a header that equals the
\* alias once lower-cased and stripped of non-alphanumerics, and is absent
\* iff no alias has one.
C7_FirstNonEmptyAlias ==
    Returned => \A k \in CanonicalKeys : PickedAsClaimed(arg, k, ret[k])

\* C7 where no two headers of the row fold to the same key: there the code
\* does what C7 says
C7_DistinctHeaders ==
    (Returned /\ Folded(arg.fieldnames[1]) # Folded(arg.fieldnames[2])) =>
        \A k \in CanonicalKeys : PickedAsClaimed(arg, k, ret[k])

=============================================================================
